---- MODULE Spec2Model ----
(***************************************************************************)
(* Subtree discovery and negative-tree generation of                       *)
(* loreiba/sgcl/trees/generation.py, as a state machine.                   *)
(*                                                                         *)
(* A Python dict {k: v} is a TLA+ function with DOMAIN = the keys; Python  *)
(* None is the integer None == -1, which is never a token id.  A Python    *)
(* tuple/list is a sequence, a Python set is a set.                        *)
(***************************************************************************)
EXTENDS FiniteSets, Integers, Sequences, TLC

\* ------------------------------------------------------------------ bounds
MaxTokens == 3
MaxMinSubtreeSize == 2
MaxReplacements == 2
MaxNegative == 3
MaxRetry == 2

None == 0 - 1

\* ----------------------------------------------------------- dict helpers
EmptyDict == [x \in {} |-> None]

\* d[k] = v
DictSet(d, k, v) == [x \in (DOMAIN d) \cup {k} |-> IF x = k THEN v ELSE d[x]]

\* del d[k] for every k of ks that is in d
DictDel(d, ks) == [x \in (DOMAIN d) \ ks |-> d[x]]

RECURSIVE Sorted(_)
\* tuple(sorted(S)) for a set of integers
Sorted(S) ==
    IF S = {} THEN << >>
    ELSE LET m == CHOOSE x \in S : \A y \in S : x <= y
         IN  <<m>> \o Sorted(S \ {m})

Min2(a, b) == IF a <= b THEN a ELSE b

\* the k-element subsets of S: the outcomes of random.sample(S, k) up to order
Samples(S, k) == {T \in SUBSET S : Cardinality(T) = k}

\* ------------------------------------------------------ well-formed inputs
RECURSIVE ReachesRoot(_, _, _)
ReachesRoot(p, i, fuel) ==
    IF i = 0 THEN TRUE
    ELSE IF fuel = 0 THEN FALSE
    ELSE ReachesRoot(p, p[i], fuel - 1)

\* every parent map over ids 0..n: 0 -> None, every other chain ends at 0
WellFormedMaps(n) ==
    { [i \in 0..n |-> IF i = 0 THEN None ELSE p[i]] :
        p \in { q \in [1..n -> 0..n] : \A i \in 1..n : ReachesRoot(q, i, n) } }

\* {0: None, 1: 0, 2: 1, 3: 1, 4: 2}
ExampleMap == (0 :> None) @@ (1 :> 0) @@ (2 :> 1) @@ (3 :> 1) @@ (4 :> 2)

\* root 2 with children 4 and 6; token 5 with children 1 and 3
NestedMap ==
    (0 :> None) @@ (1 :> 5) @@ (2 :> 0) @@ (3 :> 5) @@ (4 :> 2) @@ (5 :> 0) @@ (6 :> 2)

\* root 3 with child 4 and grandchild 2; tokens 1 and 5 outside
ChainMap == (0 :> None) @@ (1 :> 0) @@ (2 :> 4) @@ (3 :> 0) @@ (4 :> 3) @@ (5 :> 0)

\* root 3 with children 2 and 4, token 5 under 4; tokens 1 and 6 outside
WideMap ==
    (0 :> None) @@ (1 :> 0) @@ (2 :> 3) @@ (3 :> 0) @@ (4 :> 3) @@ (5 :> 4) @@ (6 :> 0)

SampleMaps == {ExampleMap, NestedMap, ChainMap, WideMap}

HeadMaps == UNION {WellFormedMaps(n) : n \in 1..MaxTokens}

Configs ==
    [min_subtree_size : 1..MaxMinSubtreeSize,
     max_replacements : 1..MaxReplacements,
     max_negative_per_subtree : 0..MaxNegative,
     max_retry : 0..MaxRetry]

\* the configurations the sample maps are run with
SampleConfigs ==
    [min_subtree_size : {2},
     max_replacements : {1, 2},
     max_negative_per_subtree : {3},
     max_retry : {0, 2}]

\* ------------------------------------------------------------ the functions
immediate_children(hm, token) ==
    Sorted({child \in DOMAIN hm : hm[child] = token})

RECURSIVE subtree_bfs(_, _, _)
subtree_bfs(hm, sub, queue) ==
    IF Len(queue) = 0 THEN sub
    ELSE LET token == Head(queue)
         IN  subtree_bfs(hm, DictSet(sub, token, hm[token]),
                         Tail(queue) \o immediate_children(hm, token))

\* a traversal that stops at the immediate children
subtree_of_id_children_only(hm, token) ==
    [k \in {token} \cup {c \in DOMAIN hm : hm[c] = token} |->
        IF k = token THEN None ELSE hm[k]]

subtree_of_id(hm, token) ==
    subtree_bfs(hm, DictSet(EmptyDict, token, None), immediate_children(hm, token))

RECURSIVE parent_walk(_, _, _)
parent_walk(hm, current, parent_ids) ==
    IF current = None THEN parent_ids
    ELSE parent_walk(hm, hm[current], parent_ids \cup {current})

\* an adjacency test that forgets the ancestor chain
adjacent_ids_with_ancestors(hm, subtree_ids, first) ==
    { x \in UNION {{t - 1, t + 1} : t \in subtree_ids} :
        x > 0 /\ x \notin subtree_ids /\ x \in DOMAIN hm }

\* first is tuple(subtree_ids)[0]: whichever element the set yields first
adjacent_ids_of_subtree(hm, subtree_ids, first) ==
    LET parent_ids == parent_walk(hm, first, {})
    IN  { x \in UNION {{t - 1, t + 1} : t \in subtree_ids} :
            /\ x > 0
            /\ x \notin subtree_ids
            /\ x \notin parent_ids
            /\ x \in DOMAIN hm }

get_all_subtrees(hm) ==
    [token \in 1..(Cardinality(DOMAIN hm) - 1) |-> subtree_of_id(hm, token)]

\* the entry appended by get_eligible_subtrees
Candidate(token, sub, adj) == [root_id |-> token, subtree |-> sub, adjacent_ids |-> adj]

NoCandidate == Candidate(0, EmptyDict, {})

\* Note the head of the subtree we're deleting
subtree_head_id(target_subtree) ==
    CHOOSE k \in DOMAIN target_subtree : target_subtree[k] = None

\* a removal that drops the target id and leaves its descendants in place
remove_target_root_only(negative_tree, target_subtree) ==
    DictDel(negative_tree, {subtree_head_id(target_subtree)})

\* Remove the target: every token id of its subtree that is still present
remove_target(negative_tree, target_subtree) ==
    DictDel(negative_tree, DOMAIN target_subtree)

\* Splice the replacement subtree in, its root taking head_id as head
splice_replacement(negative_tree, replacement_subtree, head_id) ==
    [token \in (DOMAIN negative_tree) \cup (DOMAIN replacement_subtree) |->
        IF token \in DOMAIN replacement_subtree
        THEN IF replacement_subtree[token] = None
             THEN head_id
             ELSE replacement_subtree[token]
        ELSE negative_tree[token]]

\* one iteration of "for target, value in zip(targets, values)"
replace_pair(subtrees, negative_tree, target, value) ==
    LET target_subtree == subtrees[target]
    IN  splice_replacement(remove_target(negative_tree, target_subtree),
                           subtrees[value],
                           subtree_head_id(target_subtree))

RECURSIVE negative_after(_, _, _, _, _)
\* the working copy after the first k pairs of zip(ts, vs)
negative_after(subtrees, sub, ts, vs, k) ==
    IF k = 0 THEN sub
    ELSE replace_pair(subtrees, negative_after(subtrees, sub, ts, vs, k - 1), ts[k], vs[k])

build_negative(subtrees, sub, ts, vs) ==
    negative_after(subtrees, sub, ts, vs, Min2(Len(ts), Len(vs)))

\* -------------------------------------------------------------------- state
VARIABLES
    head_map,       \* the sentence's parent map
    config,         \* TreeSgclConfig
    pc,             \* "start", "eligible", "loop", "done"
    all_subtrees,   \* get_all_subtrees(head_map)
    token_id,       \* loop variable of get_eligible_subtrees
    first_id,       \* the id the last ancestor walk started from
    adjacent_ids,   \* local of get_eligible_subtrees
    eligible,       \* list built by get_eligible_subtrees
    candidate,      \* the entry generate_negative_trees is called with
    already_done,   \* set of (targets, values) seen in this call
    negatives,      \* list of negative trees
    retry_count,
    targets,        \* last drawn sorted targets
    values,         \* last drawn sorted values
    outcome,        \* what the last loop step did: "new", "retry", "break", "full"
    draws,          \* number of draws made in this call
    streak          \* collisions since the last new draw

vars == <<head_map, config, pc, all_subtrees, token_id, first_id, adjacent_ids,
          eligible, candidate, already_done, negatives, retry_count, targets,
          values, outcome, draws, streak>>

inputVars == <<head_map, config>>
eligVars == <<all_subtrees, token_id, first_id, adjacent_ids, eligible>>
loopVars == <<candidate, already_done, negatives, retry_count, targets, values,
              outcome, draws, streak>>

NumTokens == Cardinality(DOMAIN head_map) - 1

\* A valid node for replacement is any one that is not the root of the subtree
all_replacement_targets == {k \in DOMAIN candidate.subtree : candidate.subtree[k] # None}

\* A valid replacement is an adjacent id
all_replacement_values == candidate.adjacent_ids

sample_size ==
    Min2(Min2(Cardinality(all_replacement_targets), Cardinality(all_replacement_values)),
         config.max_replacements)

InitOn(maps, configs) ==
    /\ head_map \in maps
    /\ config \in configs
    /\ pc = "start"
    /\ all_subtrees = << >>
    /\ token_id = 0
    /\ first_id = None
    /\ adjacent_ids = {}
    /\ eligible = << >>
    /\ candidate = NoCandidate
    /\ already_done = {}
    /\ negatives = << >>
    /\ retry_count = 0
    /\ targets = << >>
    /\ values = << >>
    /\ outcome = "none"
    /\ draws = 0
    /\ streak = 0

Init ==
    \/ InitOn(HeadMaps, Configs)
    \/ InitOn(SampleMaps, SampleConfigs)

\* generate_subtrees: all_subtree_lists
GetAllSubtrees ==
    /\ pc = "start"
    /\ all_subtrees' = get_all_subtrees(head_map)
    /\ token_id' = 1
    /\ pc' = "eligible"
    /\ UNCHANGED <<inputVars, first_id, adjacent_ids, eligible, loopVars>>

\* one iteration of the loop of get_eligible_subtrees
EligibleStep ==
    /\ pc = "eligible"
    /\ token_id <= NumTokens
    /\ \E first \in DOMAIN all_subtrees[token_id] :
         LET sub == all_subtrees[token_id]
             adj == adjacent_ids_of_subtree(head_map, DOMAIN sub, first)
         IN  /\ adjacent_ids' = adj
             /\ first_id' = first
             /\ eligible' =
                  IF Cardinality(DOMAIN sub) < config.min_subtree_size THEN eligible
                  ELSE IF Cardinality(adj) < 1 THEN eligible
                  ELSE Append(eligible, Candidate(token_id, sub, adj))
    /\ token_id' = token_id + 1
    /\ UNCHANGED <<inputVars, pc, all_subtrees, loopVars>>

\* the sampling method hands entry i to generate_negative_trees, which sets up its locals
Call ==
    /\ pc = "eligible"
    /\ token_id > NumTokens
    /\ \E i \in 1..Len(eligible) : candidate' = eligible[i]
    /\ already_done' = {}
    /\ negatives' = << >>
    /\ retry_count' = 0
    /\ first_id' = None
    /\ adjacent_ids' = {}
    /\ pc' = "loop"
    /\ UNCHANGED <<inputVars, all_subtrees, token_id, eligible, targets, values,
                   outcome, draws, streak>>

\* no eligible subtree in the sentence: empty tree-set list
NoCandidates ==
    /\ pc = "eligible"
    /\ token_id > NumTokens
    /\ Len(eligible) = 0
    /\ first_id' = None
    /\ adjacent_ids' = {}
    /\ pc' = "done"
    /\ UNCHANGED <<inputVars, all_subtrees, token_id, eligible, loopVars>>

\* a new draw that is appended without being recorded as seen
DrawNewUnrecorded ==
    /\ pc = "loop"
    /\ Len(negatives) < config.max_negative_per_subtree
    /\ \E T \in Samples(all_replacement_targets, sample_size),
          V \in Samples(all_replacement_values, sample_size) :
         /\ <<Sorted(T), Sorted(V)>> \notin already_done
         /\ targets' = Sorted(T)
         /\ values' = Sorted(V)
    /\ negatives' = Append(negatives,
                           build_negative(all_subtrees, candidate.subtree, targets', values'))
    /\ outcome' = "new"
    /\ draws' = draws + 1
    /\ streak' = 0
    /\ UNCHANGED <<inputVars, eligVars, pc, candidate, retry_count, already_done>>

\* a draw that was not seen before: record it, build the negative, append it
DrawNew ==
    /\ pc = "loop"
    /\ Len(negatives) < config.max_negative_per_subtree
    /\ \E T \in Samples(all_replacement_targets, sample_size),
          V \in Samples(all_replacement_values, sample_size) :
         /\ <<Sorted(T), Sorted(V)>> \notin already_done
         /\ targets' = Sorted(T)
         /\ values' = Sorted(V)
    /\ already_done' = already_done \cup {<<targets', values'>>}
    /\ negatives' = Append(negatives,
                           build_negative(all_subtrees, candidate.subtree, targets', values'))
    /\ outcome' = "new"
    /\ draws' = draws + 1
    /\ streak' = 0
    /\ UNCHANGED <<inputVars, eligVars, pc, candidate, retry_count>>

\* a collision that is never counted
DrawCollisionUncounted ==
    /\ pc = "loop"
    /\ Len(negatives) < config.max_negative_per_subtree
    /\ \E T \in Samples(all_replacement_targets, sample_size),
          V \in Samples(all_replacement_values, sample_size) :
         /\ <<Sorted(T), Sorted(V)>> \in already_done
         /\ targets' = Sorted(T)
         /\ values' = Sorted(V)
    /\ IF retry_count > config.max_retry
       THEN pc' = "done" /\ outcome' = "break"
       ELSE pc' = "loop" /\ outcome' = "retry"
    /\ draws' = draws + 1
    /\ streak' = streak + 1
    /\ UNCHANGED <<inputVars, eligVars, candidate, already_done, negatives, retry_count>>

\* a draw that was already seen: count it, stop once the limit is exceeded
DrawCollision ==
    /\ pc = "loop"
    /\ Len(negatives) < config.max_negative_per_subtree
    /\ \E T \in Samples(all_replacement_targets, sample_size),
          V \in Samples(all_replacement_values, sample_size) :
         /\ <<Sorted(T), Sorted(V)>> \in already_done
         /\ targets' = Sorted(T)
         /\ values' = Sorted(V)
    /\ retry_count' = retry_count + 1
    /\ IF retry_count + 1 > config.max_retry
       THEN pc' = "done" /\ outcome' = "break"
       ELSE pc' = "loop" /\ outcome' = "retry"
    /\ draws' = draws + 1
    /\ streak' = streak + 1
    /\ UNCHANGED <<inputVars, eligVars, candidate, already_done, negatives>>

\* the while condition fails: return
LoopExit ==
    /\ pc = "loop"
    /\ ~(Len(negatives) < config.max_negative_per_subtree)
    /\ pc' = "done"
    /\ outcome' = "full"
    /\ UNCHANGED <<inputVars, eligVars, candidate, already_done, negatives,
                   retry_count, targets, values, draws, streak>>

Next ==
    \/ GetAllSubtrees
    \/ EligibleStep
    \/ Call
    \/ NoCandidates
    \/ DrawNew
    \/ DrawCollision
    \/ LoopExit

Spec == Init /\ [][Next]_vars

\* ------------------------------------------------- what the claims refer to
RECURSIVE Chain(_, _)
\* x and all its ancestors in the full tree, up to and including id 0
Chain(hm, x) == IF x = None THEN {} ELSE {x} \cup Chain(hm, hm[x])

\* r and all its transitive descendants in the full tree
Descendants(hm, r) == {x \in DOMAIN hm : r \in Chain(hm, x)}

ExpectedAdjacent(hm, sub_ids, root) ==
    { x \in DOMAIN hm :
        /\ x \notin sub_ids
        /\ x \notin Chain(hm, root)
        /\ \E t \in sub_ids : x = t - 1 \/ x = t + 1 }

RECURSIVE ClimbsTo(_, _, _, _)
\* following parent links from k reaches root within fuel steps
ClimbsTo(tree, k, root, fuel) ==
    IF k = root THEN TRUE
    ELSE IF fuel = 0 \/ k \notin DOMAIN tree THEN FALSE
    ELSE ClimbsTo(tree, tree[k], root, fuel - 1)

ValidTree(tree, root) ==
    /\ root \in DOMAIN tree
    /\ {k \in DOMAIN tree : tree[k] = None} = {root}
    /\ \A k \in (DOMAIN tree) \ {root} : tree[k] \in DOMAIN tree
    /\ \A k \in DOMAIN tree : ClimbsTo(tree, k, root, Cardinality(DOMAIN tree))

LastNegative == negatives[Len(negatives)]

\* number of distinct (targets, values) signatures a draw can produce
NumCombos ==
    Cardinality(Samples(all_replacement_targets, sample_size))
        * Cardinality(Samples(all_replacement_values, sample_size))

Returned == pc = "done" /\ outcome \in {"break", "full"}

\* ------------------------------------------------------------------- claims

\* C1: when the replacement subtree all_subtrees[value] is spliced in, its
\* local-root entry (key value) is mapped to the parent of the excised target
\* as recorded in the positive subtree, and every other entry of the
\* replacement keeps its own parent link.
C1_ReplacementRootTakesTargetParent ==
    outcome = "new" =>
        \A k \in 1..Len(targets) :
            LET neg == negative_after(all_subtrees, candidate.subtree, targets, values, k)
                repl == all_subtrees[values[k]]
            IN  /\ neg[values[k]] = candidate.subtree[targets[k]]
                /\ \A x \in (DOMAIN repl) \ {values[k]} : neg[x] = repl[x]

\* C2: every negative tree is a valid, acyclic, single-rooted mapping with the
\* positive's local root: exactly root_id has value none, every other parent is
\* a key of the negative, and every key's parent chain reaches root_id.
C2_NegativesAreValidTrees ==
    \A i \in 1..Len(negatives) : ValidTree(negatives[i], candidate.root_id)

\* C3: when sample_size is 0 the returned negatives list is empty, and no
\* returned negative is identical to the positive subtree.
C3_NoNegativesWhenSampleSizeZero ==
    (Returned /\ sample_size = 0) =>
        /\ negatives = << >>
        /\ \A i \in 1..Len(negatives) : negatives[i] # candidate.subtree

\* C4: the key set of a negative built from targets T and values V is the
\* positive's keys minus the descendant subtrees of all of T, united with the
\* descendant subtrees of all of V; no excised id survives and every id of
\* every replacement subtree is present.
C4_NegativeKeySet ==
    outcome = "new" =>
        LET excised == UNION {Descendants(head_map, targets[k]) : k \in 1..Len(targets)}
            spliced == UNION {Descendants(head_map, values[k]) : k \in 1..Len(values)}
        IN  /\ Len(targets) = sample_size
            /\ Len(values) = sample_size
            /\ DOMAIN LastNegative = ((DOMAIN candidate.subtree) \ excised) \cup spliced
            /\ excised \cap DOMAIN LastNegative = {}
            /\ spliced \subseteq DOMAIN LastNegative

\* C4 witness: a two-pair negative whose first target lies inside the second
\* target's subtree
C4_Witness ==
    /\ outcome = "new"
    /\ Len(targets) = 2
    /\ targets[1] \in Descendants(head_map, targets[2])
    /\ Cardinality(DOMAIN LastNegative) = 3

\* C5: the number of negatives never exceeds max_negative_per_subtree and
\* equals the number of distinct signatures recorded as seen.
C5_BoundedAndUnique ==
    /\ Len(negatives) <= config.max_negative_per_subtree
    /\ Len(negatives) = Cardinality(already_done)

\* C5 witness: a call that filled its quota of at least two negatives after a
\* collision
C5_Witness ==
    /\ Returned
    /\ Len(negatives) = config.max_negative_per_subtree
    /\ Len(negatives) >= 2
    /\ retry_count >= 1

\* C6: every draw appends a negative or consumes a retry, so a call makes at
\* most max_negative_per_subtree + max_retry + 1 draws; with fewer combinations
\* than requested negatives it ends by retry exhaustion with fewer negatives;
\* with one combination, max_negative_per_subtree = 3 and max_retry = 0 it
\* returns exactly one negative.
C6_Terminates ==
    /\ draws = Len(negatives) + retry_count
    /\ draws <= config.max_negative_per_subtree + config.max_retry + 1
    /\ pc = "loop" => retry_count <= config.max_retry
    /\ (Returned /\ NumCombos < config.max_negative_per_subtree) =>
            /\ outcome = "break"
            /\ Len(negatives) < config.max_negative_per_subtree
    /\ (Returned /\ NumCombos = 1 /\ config.max_negative_per_subtree = 3
            /\ config.max_retry = 0) =>
            Len(negatives) = 1

\* C6 witness: one combination, three negatives requested, no retry allowed,
\* one negative returned
C6_Witness ==
    /\ Returned
    /\ sample_size >= 1
    /\ NumCombos = 1
    /\ config.max_negative_per_subtree = 3
    /\ config.max_retry = 0
    /\ Len(negatives) = 1

\* C7: get_all_subtrees holds an entry for every id 1..n and none for id 0;
\* each entry's keys are exactly the root and its transitive descendants, the
\* root mapped to none and every other key to its parent in the parent map.
C7_SubtreeIsDescendantClosure ==
    pc # "start" =>
        /\ DOMAIN all_subtrees = 1..NumTokens
        /\ \A r \in 1..NumTokens :
            /\ DOMAIN all_subtrees[r] = Descendants(head_map, r)
            /\ all_subtrees[r][r] = None
            /\ \A k \in (DOMAIN all_subtrees[r]) \ {r} : all_subtrees[r][k] = head_map[k]

\* C7 witness: a subtree holding a grandchild of its root, in a tree with a
\* token outside that subtree
C7_Witness ==
    /\ pc # "start"
    /\ \E r \in 1..NumTokens :
        /\ \E k \in DOMAIN all_subtrees[r] : k # r /\ head_map[k] # r
        /\ \E x \in 1..NumTokens : x \notin DOMAIN all_subtrees[r]

\* C8: adjacent_ids_of_subtree returns exactly the ids of the parent map that
\* are outside the subtree, outside the root's ancestor chain and at distance
\* one from a subtree member, whichever member the ancestor walk starts from.
C8_AdjacentIds ==
    /\ (pc = "eligible" /\ token_id > 1) =>
            adjacent_ids = ExpectedAdjacent(head_map, DOMAIN all_subtrees[token_id - 1],
                                            token_id - 1)
    /\ \A i \in 1..Len(eligible) :
            /\ eligible[i].adjacent_ids =
                  ExpectedAdjacent(head_map, DOMAIN eligible[i].subtree, eligible[i].root_id)
            /\ eligible[i].adjacent_ids \cap DOMAIN eligible[i].subtree = {}
            /\ eligible[i].adjacent_ids \cap Chain(head_map, eligible[i].root_id) = {}

\* C8 witness: a walk started from a non-root member, a non-empty result, and
\* an ancestor at distance one from a member that was left out
C8_Witness ==
    /\ pc = "eligible"
    /\ token_id > 1
    /\ first_id # token_id - 1
    /\ adjacent_ids # {}
    /\ \E a \in Chain(head_map, token_id - 1) \ {0, token_id - 1} :
         \E t \in DOMAIN all_subtrees[token_id - 1] : a = t - 1 \/ a = t + 1

\* C9: generation is abandoned only when max_retry collisions have occurred in
\* a row; collisions separated by a new draw do not add up toward the limit.
C9_BreakOnlyAfterConsecutiveCollisions ==
    outcome = "break" => streak >= config.max_retry

\* C10: the negatives of one call are pairwise distinct as mappings.
C10_NegativesPairwiseDistinct ==
    \A i, j \in 1..Len(negatives) : i # j => negatives[i] # negatives[j]

====
